---- MODULE Spec2Model ----
(***************************************************************************)
(* Model of 00_understanding_state.ipynb: the BasicState / ComplexState    *)
(* records, the update functions increment_count and add_message, the two  *)
(* single-node LangGraph workflows and their node functions.               *)
(*                                                                         *)
(* Python objects live on a heap: `dicts` holds every dict object (a       *)
(* TypedDict instance is a plain dict), `lists` every list object; a dict  *)
(* stores under "messages" the identity of a list object, so that aliasing *)
(* and in-place mutation are expressible.  Message objects are never       *)
(* written after construction and are modelled as values.                  *)
(***************************************************************************)
EXTENDS Integers, Sequences, FiniteSets, TLC

VARIABLES
    dicts,          \* heap of dict objects: dicts[id] is a function key -> value
    lists,          \* heap of list objects: lists[id] is a sequence of messages
    records,        \* identities of the records the caller holds
    simple_graph,   \* the caller's compiled basic workflow, or NoGraph
    complex_graph,  \* the caller's compiled complex workflow, or NoGraph
    pc,             \* "idle", or the engine's position in the running graph
    run,            \* the invocation in flight (graph, input, channels, steps)
    calls           \* history: one entry per completed call, in call order

vars == <<dicts, lists, records, simple_graph, complex_graph, pc, run, calls>>

----------------------------------------------------------------------------
(* Bounds of the model *)

\* largest count of a record the caller constructs
MaxInitCount == 1
\* number of top-level calls (update functions and invocations) per session
MaxOps == 2

\* counts the caller constructs records with (BasicState(count=...))
InitCounts == ((0 - 1) .. MaxInitCount) \cup {9}

\* texts handed to add_message
Texts == {"Hello, LangGraph!", ""}

START == "__start__"
END == "__end__"
NoGraph == [compiled |-> FALSE]
NoRun == [graph |-> "none"]

----------------------------------------------------------------------------
(* Messages, str(int) and the f-string *)

HumanMessage(content) == [type |-> "human", content |-> content]
AIMessage(content) == [type |-> "ai", content |-> content]

Digit(d) == SubSeq("0123456789", d + 1, d + 1)

\* message lists the caller constructs a ComplexState with
InitMessages ==
    { <<>>,
      <<HumanMessage("Hello, LangGraph!")>>,
      <<HumanMessage("Hello, LangGraph!"), AIMessage("Hi there")>> }

RECURSIVE NatToStr(_)
NatToStr(n) == IF n < 10 THEN Digit(n) ELSE NatToStr(n \div 10) \o Digit(n % 10)

\* str(n) as the f-string's {...} renders an int
IntToStr(n) == IF n < 0 THEN "-" \o NatToStr(0 - n) ELSE NatToStr(n)

----------------------------------------------------------------------------
(* Heap *)

Heap == [dicts |-> dicts, lists |-> lists]

\* the value of a record: its count and, for a complex record, the entries of
\* the list object it refers to
Value(h, id) ==
    IF "messages" \in DOMAIN h.dicts[id]
    THEN [count |-> h.dicts[id]["count"], messages |-> h.lists[h.dicts[id]["messages"]]]
    ELSE [count |-> h.dicts[id]["count"]]

IsBasic(id) == DOMAIN dicts[id] = {"count"}
IsComplex(id) == DOMAIN dicts[id] = {"count", "messages"}

----------------------------------------------------------------------------
(* State modification functions.  Each takes the heap and the identity of  *)
(* its argument and yields the heap after the call and the identity of the *)
(* object returned.                                                        *)

\* increment_count adding 2
increment_count_by_two(h, state) ==
    [dicts |-> Append(h.dicts, [count |-> h.dicts[state]["count"] + 2]),
     lists |-> h.lists,
     ret   |-> Len(h.dicts) + 1]

\* increment_count copying the count without the + 1
increment_count_copy(h, state) ==
    [dicts |-> Append(h.dicts, [count |-> h.dicts[state]["count"]]),
     lists |-> h.lists,
     ret   |-> Len(h.dicts) + 1]

increment_count(h, state) ==
    [dicts |-> Append(h.dicts, [count |-> h.dicts[state]["count"] + 1]),
     lists |-> h.lists,
     ret   |-> Len(h.dicts) + 1]

\* add_message with the two message classes exchanged
add_message_swapped(h, state, message, is_human) ==
    LET new_message == IF is_human THEN AIMessage(message) ELSE HumanMessage(message)
        new_list == h.lists[h.dicts[state]["messages"]] \o <<new_message>>
    IN  [dicts |-> Append(h.dicts, [count    |-> h.dicts[state]["count"],
                                    messages |-> Len(h.lists) + 1]),
         lists |-> Append(h.lists, new_list),
         ret   |-> Len(h.dicts) + 1]

\* add_message that also counts the message
add_message_counting(h, state, message, is_human) ==
    LET new_message == IF is_human THEN HumanMessage(message) ELSE AIMessage(message)
        new_list == h.lists[h.dicts[state]["messages"]] \o <<new_message>>
    IN  [dicts |-> Append(h.dicts, [count    |-> h.dicts[state]["count"] + 1,
                                    messages |-> Len(h.lists) + 1]),
         lists |-> Append(h.lists, new_list),
         ret   |-> Len(h.dicts) + 1]

\* add_message as state["messages"].append(new_message); return state
add_message_inplace(h, state, message, is_human) ==
    LET new_message == IF is_human THEN HumanMessage(message) ELSE AIMessage(message)
    IN  [dicts |-> h.dicts,
         lists |-> [h.lists EXCEPT ![h.dicts[state]["messages"]] = @ \o <<new_message>>],
         ret   |-> state]

add_message(h, state, message, is_human) ==
    LET new_message == IF is_human THEN HumanMessage(message) ELSE AIMessage(message)
        new_list == h.lists[h.dicts[state]["messages"]] \o <<new_message>>
    IN  [dicts |-> Append(h.dicts, [count    |-> h.dicts[state]["count"],
                                    messages |-> Len(h.lists) + 1]),
         lists |-> Append(h.lists, new_list),
         ret   |-> Len(h.dicts) + 1]

\* increment_node returning the count it was given
increment_node_same(h, state) ==
    [dicts |-> Append(h.dicts, [count |-> h.dicts[state]["count"]]),
     lists |-> h.lists,
     ret   |-> Len(h.dicts) + 1]

\* process_message reporting the count before the increment
process_message_stale(h, state) ==
    LET messages == h.lists[h.dicts[state]["messages"]]
        last_message == IF messages # <<>>
                        THEN messages[Len(messages)].content
                        ELSE "No messages yet"
        response == "Received: " \o last_message \o ". Count is now "
                        \o IntToStr(h.dicts[state]["count"])
    IN  [dicts |-> Append(h.dicts, [count    |-> h.dicts[state]["count"] + 1,
                                    messages |-> Len(h.lists) + 1]),
         lists |-> Append(h.lists, messages \o <<AIMessage(response)>>),
         ret   |-> Len(h.dicts) + 1]

\* process_message with an empty placeholder for an empty history
process_message_blank(h, state) ==
    LET messages == h.lists[h.dicts[state]["messages"]]
        last_message == IF messages # <<>>
                        THEN messages[Len(messages)].content
                        ELSE ""
        response == "Received: " \o last_message \o ". Count is now "
                        \o IntToStr(h.dicts[state]["count"] + 1)
    IN  [dicts |-> Append(h.dicts, [count    |-> h.dicts[state]["count"] + 1,
                                    messages |-> Len(h.lists) + 1]),
         lists |-> Append(h.lists, messages \o <<AIMessage(response)>>),
         ret   |-> Len(h.dicts) + 1]

\* process_message returning only the new entry under "messages"
process_message_only_new(h, state) ==
    LET messages == h.lists[h.dicts[state]["messages"]]
        last_message == IF messages # <<>>
                        THEN messages[Len(messages)].content
                        ELSE "No messages yet"
        response == "Received: " \o last_message \o ". Count is now "
                        \o IntToStr(h.dicts[state]["count"] + 1)
    IN  [dicts |-> Append(h.dicts, [count    |-> h.dicts[state]["count"] + 1,
                                    messages |-> Len(h.lists) + 1]),
         lists |-> Append(h.lists, <<AIMessage(response)>>),
         ret   |-> Len(h.dicts) + 1]

\* the node functions defined inside create_simple_graph / create_complex_graph
increment_node(h, state) ==
    [dicts |-> Append(h.dicts, [count |-> h.dicts[state]["count"] + 1]),
     lists |-> h.lists,
     ret   |-> Len(h.dicts) + 1]

process_message(h, state) ==
    LET messages == h.lists[h.dicts[state]["messages"]]
        last_message == IF messages # <<>>
                        THEN messages[Len(messages)].content
                        ELSE "No messages yet"
        response == "Received: " \o last_message \o ". Count is now "
                        \o IntToStr(h.dicts[state]["count"] + 1)
    IN  [dicts |-> Append(h.dicts, [count    |-> h.dicts[state]["count"] + 1,
                                    messages |-> Len(h.lists) + 1]),
         lists |-> Append(h.lists, messages \o <<AIMessage(response)>>),
         ret   |-> Len(h.dicts) + 1]

\* the callable registered under a node: workflow.add_node(name, fn)
RunNode(fn, h, state) ==
    IF fn = "increment_node" THEN increment_node(h, state) ELSE process_message(h, state)

----------------------------------------------------------------------------
(* Graph construction: the StateGraph builder calls the notebook makes.    *)
(* A graph is its state keys, its nodes (name, callable) and its edges;    *)
(* set_entry_point(n) is the edge from START to n.                         *)

StateGraph(schema) == [schema |-> schema, nodes |-> {}, edges |-> {}, compiled |-> FALSE]
add_node(w, name, fn) == [w EXCEPT !.nodes = @ \cup {<<name, fn>>}]
set_entry_point(w, name) == [w EXCEPT !.edges = @ \cup {<<START, name>>}]
add_edge(w, a, b) == [w EXCEPT !.edges = @ \cup {<<a, b>>}]
compile(w) == [w EXCEPT !.compiled = TRUE]

\* create_simple_graph with the node's edge leading back to the node
create_simple_graph_loop ==
    LET workflow == StateGraph({"count"})
        w1 == add_node(workflow, "increment", "increment_node")
        w2 == set_entry_point(w1, "increment")
        w3 == add_edge(w2, "increment", "increment")
    IN  compile(w3)

create_simple_graph ==
    LET workflow == StateGraph({"count"})
        w1 == add_node(workflow, "increment", "increment_node")
        w2 == set_entry_point(w1, "increment")
        w3 == add_edge(w2, "increment", END)
    IN  compile(w3)

create_complex_graph ==
    LET workflow == StateGraph({"count", "messages"})
        w1 == add_node(workflow, "process", "process_message")
        w2 == set_entry_point(w1, "process")
        w3 == add_edge(w2, "process", END)
    IN  compile(w3)

NodeNames(g) == {n[1] : n \in g.nodes}
NodeFn(g, name) == (CHOOSE n \in g.nodes : n[1] = name)[2]
Succ(g, a) == {e[2] : e \in {x \in g.edges : x[1] = a}}

\* the engine's write of a node's partial update: a key the update carries
\* replaces the running value (no reducer is attached to either key)
Merge(channels, update) ==
    [k \in DOMAIN channels |-> IF k \in DOMAIN update THEN update[k] ELSE channels[k]]

----------------------------------------------------------------------------
(* History entries *)

Call(op, arg, pre, ret, text, passed, steps) ==
    [op |-> op, arg |-> arg, pre |-> pre, ret |-> ret,
     text |-> text, passed |-> passed, steps |-> steps]

TopOps == {"increment_count", "add_message", "invoke_simple", "invoke_complex"}
TopCalls == {i \in 1..Len(calls) : calls[i].op \in TopOps}

----------------------------------------------------------------------------
\* the session's first record: BasicState(count=c), or
\* ComplexState(count=c, messages=ms) with the notebook's two initial lists
Init ==
    /\ \E c \in InitCounts :
         \/ /\ dicts = <<[count |-> c]>>
            /\ lists = <<>>
         \/ \E ms \in InitMessages :
              /\ dicts = <<[count |-> c, messages |-> 1]>>
              /\ lists = <<ms>>
    /\ records = {1}
    /\ simple_graph = NoGraph
    /\ complex_graph = NoGraph
    /\ pc = "idle"
    /\ run = NoRun
    /\ calls = <<>>

CanCall == pc = "idle" /\ Cardinality(TopCalls) < MaxOps

\* modified_basic = increment_count(basic_state)
CallIncrementCount ==
    /\ CanCall
    /\ \E state \in records :
        /\ IsBasic(state)
        /\ LET r == increment_count(Heap, state)
           IN  /\ dicts' = r.dicts
               /\ lists' = r.lists
               /\ records' = records \cup {r.ret}
               /\ calls' = Append(calls, Call("increment_count", state,
                                   Value(Heap, state), r.ret, "", <<>>, 0))
    /\ UNCHANGED <<simple_graph, complex_graph, pc, run>>

\* modified_complex = add_message(complex_state, text [, is_human]);
\* `passed` is the optional third argument, is_human defaults to True
CallAddMessage ==
    /\ CanCall
    /\ \E state \in records, message \in Texts, passed \in {<<>>, <<TRUE>>, <<FALSE>>} :
        /\ IsComplex(state)
        /\ LET is_human == IF passed = <<>> THEN TRUE ELSE passed[1]
               r == add_message(Heap, state, message, is_human)
           IN  /\ dicts' = r.dicts
               /\ lists' = r.lists
               /\ records' = records \cup {r.ret}
               /\ calls' = Append(calls, Call("add_message", state,
                                   Value(Heap, state), r.ret, message, passed, 0))
    /\ UNCHANGED <<simple_graph, complex_graph, pc, run>>

\* simple_graph = create_simple_graph()
CreateSimpleGraph ==
    /\ pc = "idle"
    /\ simple_graph' = create_simple_graph
    /\ UNCHANGED <<dicts, lists, records, complex_graph, pc, run, calls>>

\* complex_graph = create_complex_graph()
CreateComplexGraph ==
    /\ pc = "idle"
    /\ complex_graph' = create_complex_graph
    /\ UNCHANGED <<dicts, lists, records, simple_graph, pc, run, calls>>

\* graph.invoke(input): the input's values are written to the channels and
\* the node the START edge leads to is scheduled
Invoke(op, g, input) ==
    /\ CanCall
    /\ g.compiled
    /\ DOMAIN dicts[input] = g.schema
    /\ run' = [op |-> op, graph |-> g, input |-> input, pre |-> Value(Heap, input),
               channels |-> dicts[input], steps |-> 0]
    /\ pc' \in Succ(g, START)
    /\ UNCHANGED <<dicts, lists, records, simple_graph, complex_graph, calls>>

\* result = simple_graph.invoke(BasicState(count=...))
InvokeSimpleGraph == \E input \in records : Invoke("invoke_simple", simple_graph, input)

\* result = complex_graph.invoke(initial_state)
InvokeComplexGraph == \E input \in records : Invoke("invoke_complex", complex_graph, input)

\* the engine runs the scheduled node on a dict read from the channels,
\* writes the returned partial update and follows the node's edge
ExecNode ==
    /\ pc \notin {"idle", END}
    /\ pc \in NodeNames(run.graph)
    /\ LET state == Len(dicts) + 1
           h == [dicts |-> Append(dicts, run.channels), lists |-> lists]
           fn == NodeFn(run.graph, pc)
           r == RunNode(fn, h, state)
       IN  /\ dicts' = r.dicts
           /\ lists' = r.lists
           /\ run' = [run EXCEPT !.channels = Merge(@, r.dicts[r.ret]),
                                 !.steps = @ + 1]
           /\ calls' = Append(calls, Call(fn, state, Value(h, state), r.ret, "", <<>>, 0))
    /\ pc' \in Succ(run.graph, pc)
    /\ UNCHANGED <<records, simple_graph, complex_graph>>

\* END reached: invoke returns a dict holding the channels' values
Return ==
    /\ pc = END
    /\ dicts' = Append(dicts, run.channels)
    /\ records' = records \cup {Len(dicts) + 1}
    /\ calls' = Append(calls, Call(run.op, run.input, run.pre, Len(dicts) + 1,
                                   "", <<>>, run.steps))
    /\ pc' = "idle"
    /\ run' = NoRun
    /\ UNCHANGED <<lists, simple_graph, complex_graph>>

Next ==
    \/ CallIncrementCount
    \/ CallAddMessage
    \/ CreateSimpleGraph
    \/ CreateComplexGraph
    \/ InvokeSimpleGraph
    \/ InvokeComplexGraph
    \/ ExecNode
    \/ Return

Spec == Init /\ [][Next]_vars

\* an invocation in flight is a synchronous call: the engine keeps stepping
FairSpec == Spec /\ WF_vars(ExecNode) /\ WF_vars(Return)

----------------------------------------------------------------------------
(* Properties *)

Calls == 1..Len(calls)
CountOf(id) == dicts[id]["count"]
MessagesOf(id) == lists[dicts[id]["messages"]]
Last(s) == s[Len(s)]
IsPrefix(s, t) == Len(s) <= Len(t) /\ SubSeq(t, 1, Len(s)) = s
Contains(s, sub) ==
    \E i \in 1..(Len(s) - Len(sub) + 1) : SubSeq(s, i, i + Len(sub) - 1) = sub
EndsWith(s, suffix) ==
    Len(suffix) <= Len(s) /\ SubSeq(s, Len(s) - Len(suffix) + 1, Len(s)) = suffix

\* C1: increment_count(r) returns a record whose count is r.count + 1 and
\* whose only field is count.
C1_IncrementCountAddsOne ==
    \A i \in Calls :
        calls[i].op = "increment_count" =>
            /\ CountOf(calls[i].ret) = calls[i].pre.count + 1
            /\ DOMAIN dicts[calls[i].ret] = {"count"}

C1_Witness ==
    \E i \in Calls : calls[i].op = "increment_count" /\ calls[i].pre.count = 1

\* C2: add_message(r, t, is_human) returns a record whose messages are
\* r.messages, in order, followed by one entry with content t, tagged human
\* when is_human is true or omitted and assistant when it is false.
C2_AddMessageAppends ==
    \A i \in Calls :
        calls[i].op = "add_message" =>
            LET out == MessagesOf(calls[i].ret)
                before == calls[i].pre.messages
            IN  /\ Len(out) = Len(before) + 1
                /\ SubSeq(out, 1, Len(before)) = before
                /\ Last(out).content = calls[i].text
                /\ (calls[i].passed \in {<<>>, <<TRUE>>} => Last(out).type = "human")
                /\ (calls[i].passed = <<FALSE>> => Last(out).type = "ai")

C2_Witness ==
    \E i, j \in Calls :
        /\ calls[i].op = "add_message" /\ calls[i].passed = <<>>
        /\ calls[j].op = "add_message" /\ calls[j].passed = <<FALSE>>
        /\ calls[j].pre.messages # <<>>
        /\ calls[j].text = "Hello, LangGraph!"

\* C3: add_message never changes the counter: the returned record's count is
\* the argument's count.
C3_AddMessageKeepsCount ==
    \A i \in Calls :
        calls[i].op = "add_message" => CountOf(calls[i].ret) = calls[i].pre.count

C3_Witness ==
    \E i \in Calls :
        calls[i].op = "add_message" /\ calls[i].pre.count = 1 /\ calls[i].passed = <<TRUE>>

\* C4: invoking the basic workflow on {count: c} returns exactly {count: c + 1}
\* ({count: 0} gives {count: 1}); its step increment_node returns the partial
\* update {count: c + 1}.
C4_SimpleGraphResult ==
    \A i \in Calls :
        /\ calls[i].op = "invoke_simple" =>
              /\ dicts[calls[i].ret] = [count |-> calls[i].pre.count + 1]
              /\ (calls[i].pre.count = 0 => dicts[calls[i].ret] = [count |-> 1])
        /\ calls[i].op = "increment_node" =>
              dicts[calls[i].ret] = [count |-> calls[i].pre.count + 1]

C4_Witness ==
    \E i \in Calls : calls[i].op = "invoke_simple" /\ calls[i].pre = [count |-> 0]

\* C5: invoking the complex workflow on a record with count c and non-empty
\* messages ms returns count c + 1 and ms followed by one assistant entry
\* "Received: <content of the last entry of ms>. Count is now <c + 1>", the
\* number in the text being the returned count; the notebook's own input
\* gives "Received: Hello, LangGraph!. Count is now 1".
C5_ComplexGraphResult ==
    \A i \in Calls :
        (calls[i].op = "invoke_complex" /\ calls[i].pre.messages # <<>>) =>
            LET c == calls[i].pre.count
                ms == calls[i].pre.messages
                out == MessagesOf(calls[i].ret)
            IN  /\ DOMAIN dicts[calls[i].ret] = {"count", "messages"}
                /\ CountOf(calls[i].ret) = c + 1
                /\ out = ms \o <<AIMessage("Received: " \o Last(ms).content
                                     \o ". Count is now " \o IntToStr(c + 1))>>
                /\ EndsWith(Last(out).content,
                            ". Count is now " \o IntToStr(CountOf(calls[i].ret)))
                /\ (c = 0 /\ ms = <<HumanMessage("Hello, LangGraph!")>>) =>
                      /\ CountOf(calls[i].ret) = 1
                      /\ out = <<HumanMessage("Hello, LangGraph!"),
                                 AIMessage("Received: Hello, LangGraph!. Count is now 1")>>

C5_Witness ==
    \E i, j \in Calls :
        /\ calls[i].op = "invoke_complex"
        /\ calls[i].pre = [count |-> 0, messages |-> <<HumanMessage("Hello, LangGraph!")>>]
        /\ calls[j].op = "invoke_complex"
        /\ calls[j].arg = calls[i].ret

\* C6: invoking the complex workflow on {count: 0, messages: []} returns
\* count 1 and a single assistant entry whose content contains
\* "No messages yet".
C6_EmptyHistoryPlaceholder ==
    \A i \in Calls :
        (calls[i].op = "invoke_complex" /\ calls[i].pre = [count |-> 0, messages |-> <<>>]) =>
            LET out == MessagesOf(calls[i].ret)
            IN  /\ CountOf(calls[i].ret) = 1
                /\ Len(out) = 1
                /\ out[1].type = "ai"
                /\ Contains(out[1].content, "No messages yet")
                /\ out[1].content = "Received: No messages yet. Count is now 1"

C6_Witness ==
    \E i \in Calls :
        calls[i].op = "invoke_complex" /\ calls[i].pre = [count |-> 0, messages |-> <<>>]

IncCalls == {i \in Calls : calls[i].op = "increment_count"}
Feeds(j, i) == j \in IncCalls /\ j < i /\ calls[j].ret = calls[i].arg

\* number of successive increment_count applications ending with call i
RECURSIVE Applications(_)
Applications(i) ==
    IF \E j \in Calls : Feeds(j, i)
    THEN 1 + Applications(CHOOSE j \in Calls : Feeds(j, i))
    ELSE 1

\* count of the record the chain of applications ending with call i began with
RECURSIVE OriginCount(_)
OriginCount(i) ==
    IF \E j \in Calls : Feeds(j, i)
    THEN OriginCount(CHOOSE j \in Calls : Feeds(j, i))
    ELSE calls[i].pre.count

\* C7: increment_count is not idempotent: applied twice it gives r.count + 2,
\* not r.count + 1; after n successive applications the count is r.count + n,
\* and every application strictly raises the count.
C7_IncrementNotIdempotent ==
    \A i \in IncCalls :
        /\ CountOf(calls[i].ret) = OriginCount(i) + Applications(i)
        /\ CountOf(calls[i].ret) > calls[i].pre.count
        /\ \A j \in IncCalls :
              calls[j].arg = calls[i].ret =>
                  /\ CountOf(calls[j].ret) = calls[i].pre.count + 2
                  /\ CountOf(calls[j].ret) # CountOf(calls[i].ret)

C7_Witness == \E i \in IncCalls : Applications(i) >= 2

UpdateOps == {"increment_count", "add_message", "increment_node", "process_message"}

\* C8: every update operation leaves its argument as it was before the call
\* (count, and the messages' length, order and entries) and returns a distinct
\* object, so that no later update of the returned record changes the argument.
C8_ArgumentUnchanged ==
    \A i \in Calls :
        calls[i].op \in UpdateOps =>
            /\ Value(Heap, calls[i].arg) = calls[i].pre
            /\ calls[i].ret # calls[i].arg
            /\ "messages" \in DOMAIN dicts[calls[i].arg] =>
                  dicts[calls[i].ret]["messages"] # dicts[calls[i].arg]["messages"]

C8_Witness ==
    \E i, j \in Calls :
        /\ i < j
        /\ calls[i].op = "add_message"
        /\ calls[j].op \in UpdateOps
        /\ calls[j].arg = calls[i].ret

HistoryOps == {"add_message", "invoke_complex"}

\* C9: the message history is append-only: each add_message call and each
\* complex-workflow invocation returns its input's messages, as a prefix,
\* plus exactly one entry, also across successive operations.
C9_HistoryAppendOnly ==
    \A i \in Calls :
        calls[i].op \in HistoryOps =>
            /\ IsPrefix(calls[i].pre.messages, MessagesOf(calls[i].ret))
            /\ Len(MessagesOf(calls[i].ret)) = Len(calls[i].pre.messages) + 1
            /\ \A j \in Calls :
                  (calls[j].op \in HistoryOps /\ calls[j].arg = calls[i].ret) =>
                      /\ IsPrefix(MessagesOf(calls[i].ret), MessagesOf(calls[j].ret))
                      /\ IsPrefix(calls[i].pre.messages, MessagesOf(calls[j].ret))
                      /\ Len(MessagesOf(calls[j].ret)) = Len(calls[i].pre.messages) + 2

C9_Witness ==
    \E i, j \in Calls :
        /\ calls[i].op = "add_message"
        /\ calls[j].op = "invoke_complex"
        /\ calls[j].arg = calls[i].ret
        /\ calls[i].pre.messages # <<>>

SingleStep(g) ==
    g.compiled =>
        /\ Cardinality(g.nodes) = 1
        /\ \E n \in NodeNames(g) : g.edges = {<<START, n>>, <<n, END>>}

InvokeOps == {"invoke_simple", "invoke_complex"}

RunsStepOnce ==
    /\ SingleStep(simple_graph)
    /\ SingleStep(complex_graph)
    /\ pc \notin {"idle", END} => run.steps = 0
    /\ pc = END => run.steps = 1
    /\ \A i \in Calls :
          calls[i].op \in InvokeOps =>
              /\ calls[i].steps = 1
              /\ CountOf(calls[i].ret) = calls[i].pre.count + 1

\* C10: each graph has one step, entered from START and leading to END; every
\* invocation runs that step exactly once (the count rises by exactly 1) and
\* always terminates.
C10_SingleStepTerminates ==
    /\ []RunsStepOnce
    /\ (pc # "idle") ~> (pc = "idle")

C10_Witness ==
    \E i, j \in Calls :
        /\ i < j
        /\ calls[i].op \in InvokeOps /\ calls[j].op \in InvokeOps
        /\ calls[j].arg = calls[i].ret
        /\ calls[j].steps = 1
        /\ pc = "idle"
====
